---------------------------- MODULE Spec2Model ----------------------------
(***************************************************************************)
(* A model of src/debruijn/debruijn.py: de Bruijn graph assembly.          *)
(*                                                                         *)
(* Strings are sequences of one-letter strings (a read "ACG" is            *)
(* <<"A","C","G">>), so that slicing is SubSeq.  A DiGraph is a record     *)
(* [nodes, edges]: nodes is the node list in insertion order (the order    *)
(* graph.nodes() iterates), edges the list of [u, v, weight] in insertion  *)
(* order (which fixes the order of predecessors() and successors()).       *)
(* A mean of integer weights is kept exactly, as the pair <<sum, count>>.  *)
(***************************************************************************)
EXTENDS Integers, Sequences, FiniteSets, TLC

VARIABLES
    kmer_size,        \* args.kmer_size
    reads,            \* the sequences read_fastq yields, in file order
    kmer_dict,        \* build_kmer_dict's dictionary, in insertion order
    graph,            \* the DiGraph, mutated in place by the passes
    starting_nodes,   \* the starting_nodes list handed to solve_entry_tips / get_contigs
    ending_nodes,     \* the ending_nodes list handed to solve_out_tips / get_contigs
    contigs,          \* get_contigs' result
    pc,               \* the function the program is in
    depth,            \* recursion depth of the running pass (rounds that applied a fix)
    scan,             \* the (ancestor_node, node) simplify_bubbles last handed to solve_bubble
    sel,              \* the arguments and the choice of the last select_best_path call
    caller,           \* who drives the functions: main(), or a client of the module
    last,             \* the pass that returned last ("" before any has)
    given             \* the running (or last run) pass, and the graph it was handed

vars == <<kmer_size, reads, kmer_dict, graph, starting_nodes, ending_nodes,
          contigs, pc, depth, scan, sel, caller, last, given>>

---------------------------------------------------------------------------
(* Bounds of the model                                                     *)

MaxLetters == 5
MaxK == 3
MaxKmers == 4
MaxOccurrences == 5
MaxDepth == 6
MaxPaths == 3

Letters == <<"A", "C", "G", "T">>

Alphabet == {Letters[i] : i \in 1..Len(Letters)}

\* Python's None, as lowest_common_ancestor's default: a value no node equals
\* (a node is a sequence of letters of Alphabet).
None == <<"None">>

---------------------------------------------------------------------------
(* Sequence helpers                                                        *)

Range(s) == {s[i] : i \in 1..Len(s)}

Last(s) == s[Len(s)]

\* s[:-1] and s[1:]; both are the empty sequence on the empty sequence
ButLast(s) == SubSeq(s, 1, Len(s) - 1)

RECURSIVE Sum(_)
Sum(s) == IF s = << >> THEN 0 ELSE Head(s) + Sum(Tail(s))

RECURSIVE Flatten(_)
Flatten(ss) == IF ss = << >> THEN << >> ELSE Head(ss) \o Flatten(Tail(ss))

\* all sequences over S of length n, and of length at most n
RECURSIVE SeqsOfLen(_, _)
SeqsOfLen(S, n) ==
    IF n = 0 THEN {<< >>}
    ELSE {Append(s, x) : s \in SeqsOfLen(S, n - 1), x \in S}

SeqsUpTo(S, n) == UNION {SeqsOfLen(S, m) : m \in 0..n}

\* list.index(x): the first position holding x (1-based)
IndexOf(s, x) == CHOOSE i \in 1..Len(s) : s[i] = x /\ \A j \in 1..(i - 1) : s[j] # x

---------------------------------------------------------------------------
(* K-mers and the graph builder                                            *)

cut_kmer(read, k) ==
    [i \in 1..(IF Len(read) - k + 1 > 0 THEN Len(read) - k + 1 ELSE 0)
        |-> SubSeq(read, i, i + k - 1)]

\* a faulty counter, which the weight invariant must tell from CountKmer: a
\* k-mer seen again keeps its count of 1
CountKmerOnce(kd, kmer) ==
    IF \E i \in 1..Len(kd) : kd[i].kmer = kmer
    THEN kd
    ELSE Append(kd, [kmer |-> kmer, count |-> 1])

\* kmer_dict[kmer] = kmer_dict.get(kmer, 0) + 1
CountKmer(kd, kmer) ==
    IF \E i \in 1..Len(kd) : kd[i].kmer = kmer
    THEN [i \in 1..Len(kd) |->
            IF kd[i].kmer = kmer THEN [kd[i] EXCEPT !.count = @ + 1] ELSE kd[i]]
    ELSE Append(kd, [kmer |-> kmer, count |-> 1])

RECURSIVE CountKmers(_, _)
CountKmers(kd, kmers) ==
    IF kmers = << >> THEN kd
    ELSE CountKmers(CountKmer(kd, Head(kmers)), Tail(kmers))

RECURSIVE build_kmer_dict(_, _)
build_kmer_dict(rs, k) ==
    IF rs = << >> THEN << >>
    ELSE CountKmers(build_kmer_dict(ButLast(rs), k), cut_kmer(Last(rs), k))

EmptyGraph == [nodes |-> << >>, edges |-> << >>]

add_node(g, n) ==
    IF n \in Range(g.nodes) THEN g ELSE [g EXCEPT !.nodes = Append(@, n)]

\* DiGraph.add_edge(u, v, weight=w): both nodes are created when missing; an
\* edge that exists keeps its place and takes the new weight
add_edge(g, u, v, w) ==
    LET g1 == add_node(add_node(g, u), v)
    IN  IF \E i \in 1..Len(g1.edges) : g1.edges[i].u = u /\ g1.edges[i].v = v
        THEN [g1 EXCEPT !.edges = [i \in 1..Len(g1.edges) |->
                 IF g1.edges[i].u = u /\ g1.edges[i].v = v
                 THEN [g1.edges[i] EXCEPT !.weight = w] ELSE g1.edges[i]]]
        ELSE [g1 EXCEPT !.edges = Append(@, [u |-> u, v |-> v, weight |-> w])]

RECURSIVE build_graph(_)
build_graph(kd) ==
    IF kd = << >> THEN EmptyGraph
    ELSE LET e == Last(kd)
         IN  add_edge(build_graph(ButLast(kd)), ButLast(e.kmer), Tail(e.kmer), e.count)

---------------------------------------------------------------------------
(* Graph queries (networkx)                                                *)

NodeSet(g) == Range(g.nodes)

HasEdge(g, a, b) == \E i \in 1..Len(g.edges) : g.edges[i].u = a /\ g.edges[i].v = b

EdgeWeight(g, a, b) ==
    (CHOOSE e \in Range(g.edges) : e.u = a /\ e.v = b).weight

predecessors(g, n) ==
    LET into(e) == e.v = n
        es == SelectSeq(g.edges, into)
    IN  [i \in 1..Len(es) |-> es[i].u]

successors(g, n) ==
    LET outof(e) == e.u = n
        es == SelectSeq(g.edges, outof)
    IN  [i \in 1..Len(es) |-> es[i].v]

\* nodes reachable from n by one or more edges
RECURSIVE ReachFrom(_, _, _)
ReachFrom(g, frontier, seen) ==
    LET next == {e.v : e \in {x \in Range(g.edges) : x.u \in frontier}} \ seen
    IN  IF next = {} THEN seen ELSE ReachFrom(g, next, seen \cup next)

Descendants(g, n) == ReachFrom(g, {n}, {})

\* networkx.ancestors(G, n): the nodes with a path of one or more edges to n
Ancestors(g, n) == {m \in NodeSet(g) : n \in Descendants(g, m)}

is_directed_acyclic_graph(g) == \A n \in NodeSet(g) : n \notin Descendants(g, n)

\* has_path(G, source, target); true when source = target
has_path(g, s, t) == s = t \/ t \in Descendants(g, s)

---------------------------------------------------------------------------
(* all_simple_paths: depth-first, children in successors() order, a node   *)
(* never twice on a path, and no step beyond the target.                   *)

RECURSIVE PathsFrom(_, _, _)
PathsFrom(g, path, target) ==
    LET children == successors(g, Last(path))
        visit(c) ==
            IF c \in Range(path) THEN << >>
            ELSE IF c = target THEN <<Append(path, c)>>
            ELSE PathsFrom(g, Append(path, c), target)
    IN  Flatten([i \in 1..Len(children) |-> visit(children[i])])

\* trivial: whether the networkx in use yields the one-node path [source] when
\* source = target (it does from 3.2 on, and yields nothing before)
all_simple_paths(g, source, target, trivial) ==
    IF source = target
    THEN IF trivial THEN <<<<source>>>> ELSE << >>
    ELSE PathsFrom(g, <<source>>, target)

---------------------------------------------------------------------------
(* lowest_common_ancestor(G, node1, node2), default None.  The library     *)
(* starts from an arbitrary common ancestor (set iteration order) and      *)
(* walks down while a successor is a common ancestor too, so it may return *)
(* any common ancestor none of whose successors is one.                    *)

CommonAncestors(g, a, b) ==
    (Ancestors(g, a) \cup {a}) \cap (Ancestors(g, b) \cup {b})

LowestCommonAncestors(g, a, b) ==
    LET ca == CommonAncestors(g, a, b)
    IN  IF ca = {} THEN {None}
        ELSE {x \in ca : Range(successors(g, x)) \cap ca = {}}

---------------------------------------------------------------------------
(* Node removal.  A graph "in flight" is [graph, ok]: ok turns FALSE when  *)
(* DiGraph.remove_node raises NetworkXError (the node is not in the graph) *)
(* and the nodes removed before stay removed.                              *)

DropNode(g, n) ==
    LET keepN(m) == m # n
        keepE(e) == e.u # n /\ e.v # n
    IN  [nodes |-> SelectSeq(g.nodes, keepN), edges |-> SelectSeq(g.edges, keepE)]

remove_node(st, n) ==
    IF ~st.ok THEN st
    ELSE IF n \notin NodeSet(st.graph) THEN [st EXCEPT !.ok = FALSE]
    ELSE [st EXCEPT !.graph = DropNode(st.graph, n)]

\* DiGraph.remove_nodes_from: a missing node is skipped silently
remove_nodes_from(st, ns) ==
    IF ~st.ok THEN st
    ELSE LET keepN(m) == m \notin Range(ns)
             keepE(e) == e.u \notin Range(ns) /\ e.v \notin Range(ns)
         IN  [st EXCEPT !.graph = [nodes |-> SelectSeq(st.graph.nodes, keepN),
                                   edges |-> SelectSeq(st.graph.edges, keepE)]]

RECURSIVE RemoveEach(_, _)
RemoveEach(st, ns) ==
    IF ns = << >> THEN st ELSE RemoveEach(remove_node(st, Head(ns)), Tail(ns))

\* a faulty loop body, which the tip scenario must tell from RemoveOnePath: the
\* flags are ignored and only the interior of the path is removed
RemoveOnePathInterior(st, path, delete_entry_node, delete_sink_node) ==
    RemoveEach(st, SubSeq(path, 2, Len(path) - 1))

\* the body of remove_paths' loop, for one path
RemoveOnePath(st, path, delete_entry_node, delete_sink_node) ==
    IF delete_entry_node /\ delete_sink_node THEN remove_nodes_from(st, path)
    ELSE IF delete_entry_node THEN RemoveEach(st, ButLast(path))
    ELSE IF delete_sink_node THEN RemoveEach(st, Tail(path))
    ELSE RemoveEach(st, SubSeq(path, 2, Len(path) - 1))

RECURSIVE RemovePathsFrom(_, _, _, _)
RemovePathsFrom(st, path_list, delete_entry_node, delete_sink_node) ==
    IF path_list = << >> THEN st
    ELSE RemovePathsFrom(
             RemoveOnePath(st, Head(path_list), delete_entry_node, delete_sink_node),
             Tail(path_list), delete_entry_node, delete_sink_node)

remove_paths(g, path_list, delete_entry_node, delete_sink_node) ==
    RemovePathsFrom([graph |-> g, ok |-> TRUE], path_list,
                    delete_entry_node, delete_sink_node)

---------------------------------------------------------------------------
(* Path statistics.  A mean is <<sum, count>>, compared exactly.           *)

AvgLess(a, b) == a[1] * b[2] < b[1] * a[2]

AvgEq(a, b) == a[1] * b[2] = b[1] * a[2]

\* the weights of graph.subgraph(path).edges(data=True): every edge of the
\* graph with both ends among the path's nodes
SubgraphWeights(g, path) ==
    LET inside(e) == e.u \in Range(path) /\ e.v \in Range(path)
        es == SelectSeq(g.edges, inside)
    IN  [i \in 1..Len(es) |-> es[i].weight]

\* statistics.mean of them; it raises StatisticsError on no data, which the
\* callers never produce (count = 0 marks it)
path_average_weight(g, path) ==
    LET ws == SubgraphWeights(g, path) IN <<Sum(ws), Len(ws)>>

\* statistics.stdev(xs) > 0, for two or more data points: they are not all equal
AvgSpread(xs) == \E i, j \in 1..Len(xs) : ~AvgEq(xs[i], xs[j])

LenSpread(xs) == \E i, j \in 1..Len(xs) : xs[i] # xs[j]

\* a faulty choice, which the selection policy must tell from IndexOfMaxAvg:
\* xs.index(min(xs))
IndexOfMinAvg(xs) ==
    CHOOSE i \in 1..Len(xs) :
        /\ \A j \in 1..Len(xs) : ~AvgLess(xs[j], xs[i])
        /\ \A j \in 1..(i - 1) : AvgLess(xs[i], xs[j])

\* xs.index(max(xs))
IndexOfMaxAvg(xs) ==
    CHOOSE i \in 1..Len(xs) :
        /\ \A j \in 1..Len(xs) : ~AvgLess(xs[i], xs[j])
        /\ \A j \in 1..(i - 1) : AvgLess(xs[j], xs[i])

IndexOfMaxLen(xs) ==
    CHOOSE i \in 1..Len(xs) :
        /\ \A j \in 1..Len(xs) : xs[j] <= xs[i]
        /\ \A j \in 1..(i - 1) : xs[j] < xs[i]

---------------------------------------------------------------------------
(* select_best_path.  The set of its possible outcomes                     *)
(* [ok, best, removed, graph]: ok = FALSE is an exception                  *)
(* (statistics.stdev on fewer than two data points, or remove_node on a    *)
(* node already removed); best is best_path_index (1-based, 0 when none    *)
(* was chosen); removed is paths_to_remove; the choices are                *)
(* random.randint's.                                                       *)

BestPathIndexes(path_length, weight_avg_list) ==
    IF Len(weight_avg_list) < 2 THEN {}
    ELSE IF AvgSpread(weight_avg_list) THEN {IndexOfMaxAvg(weight_avg_list)}
    ELSE IF Len(path_length) < 2 THEN {}
    ELSE IF LenSpread(path_length) THEN {IndexOfMaxLen(path_length)}
    ELSE 1..Len(path_length)

PathsToRemove(path_list, best) ==
    LET idx == SelectSeq([i \in 1..Len(path_list) |-> i], LAMBDA i : i # best)
    IN  [i \in 1..Len(idx) |-> path_list[idx[i]]]

select_best_path(g, path_list, path_length, weight_avg_list, delete_entry_node, delete_sink_node) ==
    LET bests == BestPathIndexes(path_length, weight_avg_list)
    IN  IF bests = {} THEN {[ok |-> FALSE, best |-> 0, removed |-> << >>, graph |-> g]}
        ELSE {LET paths_to_remove == PathsToRemove(path_list, b)
                  r == remove_paths(g, paths_to_remove, delete_entry_node, delete_sink_node)
              IN  [ok |-> r.ok, best |-> b, removed |-> paths_to_remove, graph |-> r.graph]
              : b \in bests}

---------------------------------------------------------------------------
(* Boundary queries                                                        *)

get_starting_nodes(g) ==
    SelectSeq(g.nodes, LAMBDA n : Len(predecessors(g, n)) = 0)

get_sink_nodes(g) ==
    SelectSeq(g.nodes, LAMBDA n : Len(successors(g, n)) = 0)

---------------------------------------------------------------------------
(* simplify_bubbles' scan.  The loop state is [ancestor, bubble, ok]; ok   *)
(* turns FALSE when lowest_common_ancestor raises (the graph has a cycle). *)
(* Each operator returns the set of states the loop can end in.            *)

\* for j in range(i+1, len(list_predecessors)): the break leaves this loop only
RECURSIVE ScanInner(_, _, _, _, _)
ScanInner(g, preds, i, j, st) ==
    IF j > Len(preds) THEN {st}
    ELSE IF ~is_directed_acyclic_graph(g) THEN {[st EXCEPT !.ok = FALSE]}
    ELSE UNION {IF a # None
                THEN {[ancestor |-> a, bubble |-> TRUE, ok |-> TRUE]}
                ELSE ScanInner(g, preds, i, j + 1, [st EXCEPT !.ancestor = a])
                : a \in LowestCommonAncestors(g, preds[i], preds[j])}

\* a faulty outer loop, which idempotence must tell from ScanOuter: only the
\* pairs of the first predecessor are looked at
ScanOuterFirstOnly(g, preds, i, st) ==
    IF ~st.ok \/ i > 1 THEN {st} ELSE ScanInner(g, preds, 1, 2, st)

\* for i in range(len(list_predecessors))
RECURSIVE ScanOuter(_, _, _, _)
ScanOuter(g, preds, i, st) ==
    IF ~st.ok \/ i > Len(preds) THEN {st}
    ELSE UNION {ScanOuter(g, preds, i + 1, s2) : s2 \in ScanInner(g, preds, i, i + 1, st)}

\* for node in graph.nodes(): the outcomes [kind, node, ancestor] of the scan,
\* kind "none" (no bubble), "bubble", or "error"
RECURSIVE ScanNodes(_, _, _)
ScanNodes(g, idx, st) ==
    IF idx > Len(g.nodes) THEN {[kind |-> "none", node |-> None, ancestor |-> None]}
    ELSE LET node == g.nodes[idx]
             list_predecessors == predecessors(g, node)
             ends == IF Len(list_predecessors) > 1
                     THEN ScanOuter(g, list_predecessors, 1, st) ELSE {st}
         IN  UNION {IF ~e.ok
                    THEN {[kind |-> "error", node |-> node, ancestor |-> None]}
                    ELSE IF e.bubble
                    THEN {[kind |-> "bubble", node |-> node, ancestor |-> e.ancestor]}
                    ELSE ScanNodes(g, idx + 1, e) : e \in ends}

BubbleScan(g) == ScanNodes(g, 1, [ancestor |-> None, bubble |-> FALSE, ok |-> TRUE])

---------------------------------------------------------------------------
(* The tip scans: the first node, outside the boundary list, with more     *)
(* than one predecessor (successor), and the paths gathered for it.        *)

EntryPoints(g, starts) ==
    SelectSeq(g.nodes, LAMBDA n : n \notin Range(starts) /\ Len(predecessors(g, n)) > 1)

EntryPaths(g, starts, node) ==
    Flatten([i \in 1..Len(starts) |->
        IF has_path(g, starts[i], node)
        THEN all_simple_paths(g, starts[i], node, FALSE) ELSE << >>])

OutPoints(g, ends) ==
    SelectSeq(g.nodes, LAMBDA n : n \notin Range(ends) /\ Len(successors(g, n)) > 1)

OutPaths(g, ends, node) ==
    Flatten([i \in 1..Len(ends) |->
        IF has_path(g, node, ends[i])
        THEN all_simple_paths(g, node, ends[i], FALSE) ELSE << >>])

Weights(g, path_list) == [i \in 1..Len(path_list) |-> path_average_weight(g, path_list[i])]

Lengths(path_list) == [i \in 1..Len(path_list) |-> Len(path_list[i])]

---------------------------------------------------------------------------
(* get_contigs                                                             *)

\* a faulty reconstruction, which the contig property must tell from Contig:
\* every node is appended whole
ContigWholeNodes(a_path) ==
    LET contig_i == Flatten(a_path) IN <<contig_i, Len(contig_i)>>

Contig(a_path) ==
    LET contig_i == a_path[1] \o [i \in 1..(Len(a_path) - 1) |-> Last(a_path[i + 1])]
    IN  <<contig_i, Len(contig_i)>>

get_contigs(g, starts, ends, trivial) ==
    LET paths == Flatten([p \in 1..(Len(starts) * Len(ends)) |->
                    LET node_start == starts[((p - 1) \div Len(ends)) + 1]
                        node_end == ends[((p - 1) % Len(ends)) + 1]
                    IN  IF has_path(g, node_start, node_end)
                        THEN all_simple_paths(g, node_start, node_end, trivial)
                        ELSE << >>])
    IN  [i \in 1..Len(paths) |-> Contig(paths[i])]

---------------------------------------------------------------------------
(* Inputs                                                                  *)

\* the letters of the reads main() is run on
ReadLetters == {"A", "C", "G"}

\* the read files of main(): any number of non-empty reads over ReadLetters,
\* at most n letters in all
RECURSIVE FilesWithin(_)
FilesWithin(n) ==
    {<< >>} \cup
    UNION {{<<r>> \o f : r \in SeqsOfLen(ReadLetters, l), f \in FilesWithin(n - l)}
           : l \in 1..n}

\* the spec's round-trip scenario (with k = 3)
RoundTripReads == <<<<"A", "C", "G", "T">>, <<"C", "G", "T", "A">>>>

\* the spec's contig scenario (with k = 2): two node-disjoint paths
DisjointReads == <<<<"A", "C">>, <<"G", "T">>>>

ReadFiles == FilesWithin(MaxLetters) \cup {RoundTripReads, DisjointReads}

\* the 2-mers whose edge goes forward in the order of Letters: every acyclic
\* graph on Len(Letters) nodes is, up to the names of its nodes, a set of these
ForwardKmers ==
    {<<Letters[p[1]], Letters[p[2]]>> :
        p \in {q \in (1..Len(Letters)) \X (1..Len(Letters)) : q[1] < q[2]}}

IsInjective(s) == \A i, j \in 1..Len(s) : s[i] = s[j] => i = j

\* the dictionaries a client builds its graph from: at most MaxKmers distinct
\* forward 2-mers, in any insertion order, counted MaxOccurrences times in all
KmerDicts ==
    UNION {{[i \in 1..Len(ks) |-> [kmer |-> ks[i], count |-> ws[i]]]
              : ws \in {w \in [1..Len(ks) -> 1..(MaxOccurrences - Len(ks) + 1)] :
                          Sum(w) <= MaxOccurrences}}
           : ks \in {s \in SeqsUpTo(ForwardKmers, MaxKmers) : IsInjective(s)}}

\* a read file that build_kmer_dict turns into kd: each k-mer, count times
ReadsOf(kd) == Flatten([i \in 1..Len(kd) |-> [c \in 1..kd[i].count |-> kd[i].kmer]])

NoScan == [node |-> None, ancestor |-> None, graph |-> EmptyGraph]

NoCall ==
    [called |-> FALSE, graph |-> EmptyGraph, path_list |-> << >>, path_length |-> << >>,
     weight_avg_list |-> << >>, delete_entry_node |-> FALSE, delete_sink_node |-> FALSE,
     best |-> 0, removed |-> << >>, ok |-> TRUE]

TheCall(g, path_list, path_length, weight_avg_list, delete_entry_node, delete_sink_node, r) ==
    [called |-> TRUE, graph |-> g, path_list |-> path_list, path_length |-> path_length,
     weight_avg_list |-> weight_avg_list, delete_entry_node |-> delete_entry_node,
     delete_sink_node |-> delete_sink_node, best |-> r.best, removed |-> r.removed,
     ok |-> r.ok]

---------------------------------------------------------------------------
(* main()                                                                  *)

InitMain ==
    /\ caller = "main"
    /\ kmer_size \in 1..MaxK
    /\ reads \in ReadFiles
    /\ kmer_dict = << >>
    /\ graph = EmptyGraph
    /\ starting_nodes = << >>
    /\ ending_nodes = << >>
    /\ contigs = << >>
    /\ pc = "build_kmer_dict"
    /\ depth = 0
    /\ scan = NoScan
    /\ sel = NoCall
    /\ last = ""
    /\ given = [pass |-> "", graph |-> graph]

BuildKmerDict ==
    /\ pc = "build_kmer_dict"
    /\ kmer_dict' = build_kmer_dict(reads, kmer_size)
    /\ pc' = "build_graph"
    /\ UNCHANGED <<kmer_size, reads, graph, starting_nodes, ending_nodes, contigs,
                   depth, scan, sel, caller, last, given>>

BuildGraph ==
    /\ pc = "build_graph"
    /\ graph' = build_graph(kmer_dict)
    /\ starting_nodes' = get_starting_nodes(graph')
    /\ ending_nodes' = get_sink_nodes(graph')
    /\ pc' = "simplify_bubbles"
    /\ given' = [pass |-> "simplify_bubbles", graph |-> graph']
    /\ UNCHANGED <<kmer_size, reads, kmer_dict, contigs, depth, scan, sel,
                   caller, last>>

---------------------------------------------------------------------------
(* The passes, one action per round (one call of the recursion).  A round  *)
(* that fixes something calls itself: depth counts these calls, and the    *)
(* call past MaxDepth is the interpreter's RecursionError.                 *)

\* after a fix: recurse
Recurse(r) ==
    /\ graph' = r.graph
    /\ UNCHANGED <<last, given>>
    /\ IF r.ok /\ depth < MaxDepth
       THEN depth' = depth + 1 /\ pc' = pc
       ELSE depth' = depth /\ pc' = "error"

\* the pass returns its graph to main() (which goes on to `next`) or to the client
Return(next) ==
    /\ graph' = graph
    /\ depth' = 0
    /\ last' = pc
    /\ given' = IF caller = "main" THEN [pass |-> next, graph |-> graph] ELSE given
    /\ pc' = IF caller = "main" THEN next ELSE "idle"

Raise ==
    /\ pc' = "error"
    /\ UNCHANGED <<graph, depth, last, given>>

SimplifyBubblesRound ==
    /\ pc = "simplify_bubbles"
    /\ \E o \in BubbleScan(graph) :
         CASE o.kind = "error" ->
                /\ Raise
                /\ UNCHANGED <<scan, sel, starting_nodes>>
           [] o.kind = "none" ->
                /\ Return("solve_entry_tips")
                /\ starting_nodes' = IF caller = "main" THEN get_starting_nodes(graph)
                                     ELSE starting_nodes
                /\ UNCHANGED <<scan, sel>>
           [] o.kind = "bubble" ->
                /\ scan' = [node |-> o.node, ancestor |-> o.ancestor, graph |-> graph]
                /\ UNCHANGED starting_nodes
                /\ IF o.ancestor \notin NodeSet(graph)
                   THEN Raise /\ UNCHANGED sel
                   ELSE LET path_list == all_simple_paths(graph, o.ancestor, o.node, FALSE)
                            weight_avg_list == Weights(graph, path_list)
                            path_length == Lengths(path_list)
                        IN  \E r \in select_best_path(graph, path_list, path_length,
                                                      weight_avg_list, FALSE, FALSE) :
                              /\ sel' = TheCall(graph, path_list, path_length,
                                                weight_avg_list, FALSE, FALSE, r)
                              /\ Recurse(r)
    /\ UNCHANGED <<kmer_size, reads, kmer_dict, ending_nodes, contigs, caller>>

SolveEntryTipsRound ==
    /\ pc = "solve_entry_tips"
    /\ LET points == EntryPoints(graph, starting_nodes)
           path_list == IF points = << >> THEN << >>
                        ELSE EntryPaths(graph, starting_nodes, points[1])
       IN  IF Len(path_list) > 1
           THEN LET weight_avg_list == Weights(graph, path_list)
                    path_length == Lengths(path_list)
                IN  \E r \in select_best_path(graph, path_list, path_length,
                                              weight_avg_list, TRUE, FALSE) :
                      /\ sel' = TheCall(graph, path_list, path_length,
                                        weight_avg_list, TRUE, FALSE, r)
                      /\ Recurse(r)
                      /\ starting_nodes' = IF r.ok THEN get_starting_nodes(r.graph)
                                           ELSE starting_nodes
                      /\ UNCHANGED ending_nodes
           ELSE /\ Return("solve_out_tips")
                /\ ending_nodes' = IF caller = "main" THEN get_sink_nodes(graph)
                                   ELSE ending_nodes
                /\ UNCHANGED <<sel, starting_nodes>>
    /\ UNCHANGED <<kmer_size, reads, kmer_dict, contigs, scan, caller>>

SolveOutTipsRound ==
    /\ pc = "solve_out_tips"
    /\ LET points == OutPoints(graph, ending_nodes)
           path_list == IF points = << >> THEN << >>
                        ELSE OutPaths(graph, ending_nodes, points[1])
       IN  IF Len(path_list) > 1
           THEN LET weight_avg_list == Weights(graph, path_list)
                    path_length == Lengths(path_list)
                IN  \E r \in select_best_path(graph, path_list, path_length,
                                              weight_avg_list, FALSE, TRUE) :
                      /\ sel' = TheCall(graph, path_list, path_length,
                                        weight_avg_list, FALSE, TRUE, r)
                      /\ Recurse(r)
                      /\ ending_nodes' = IF r.ok THEN get_sink_nodes(r.graph)
                                         ELSE ending_nodes
                      /\ UNCHANGED starting_nodes
           ELSE /\ Return("get_contigs")
                /\ starting_nodes' = IF caller = "main" THEN get_starting_nodes(graph)
                                     ELSE starting_nodes
                /\ ending_nodes' = IF caller = "main" THEN get_sink_nodes(graph)
                                   ELSE ending_nodes
                /\ UNCHANGED sel
    /\ UNCHANGED <<kmer_size, reads, kmer_dict, contigs, scan, caller>>

GetContigs ==
    /\ pc = "get_contigs"
    /\ \E trivial \in BOOLEAN :
         contigs' = get_contigs(graph, starting_nodes, ending_nodes, trivial)
    /\ pc' = "done"
    /\ UNCHANGED <<kmer_size, reads, kmer_dict, graph, starting_nodes, ending_nodes,
                   depth, scan, sel, caller, last, given>>

Next ==
    \/ BuildKmerDict
    \/ BuildGraph
    \/ SimplifyBubblesRound
    \/ SolveEntryTipsRound
    \/ SolveOutTipsRound
    \/ GetContigs

Spec == InitMain /\ [][Next]_vars

---------------------------------------------------------------------------
(* A client of the module: it builds a graph and calls the passes on it,   *)
(* in any order, each with the boundary list main() would hand it.         *)

InitClient ==
    /\ caller = "client"
    /\ kmer_size = 2
    /\ kmer_dict \in KmerDicts
    /\ reads = ReadsOf(kmer_dict)
    /\ graph = build_graph(kmer_dict)
    /\ starting_nodes = get_starting_nodes(graph)
    /\ ending_nodes = get_sink_nodes(graph)
    /\ contigs = << >>
    /\ pc = "idle"
    /\ depth = 0
    /\ scan = NoScan
    /\ sel = NoCall
    /\ last = ""
    /\ given = [pass |-> "", graph |-> graph]

Call(pass) ==
    /\ pc = "idle"
    /\ caller = "client"
    /\ pc' = pass
    /\ depth' = 0
    /\ given' = [pass |-> pass, graph |-> graph]
    /\ UNCHANGED <<kmer_size, reads, kmer_dict, graph, contigs, scan, sel, caller, last>>

CallSimplifyBubbles ==
    /\ Call("simplify_bubbles")
    /\ UNCHANGED <<starting_nodes, ending_nodes>>

CallSolveEntryTips ==
    /\ Call("solve_entry_tips")
    /\ starting_nodes' = get_starting_nodes(graph)
    /\ UNCHANGED ending_nodes

CallSolveOutTips ==
    /\ Call("solve_out_tips")
    /\ ending_nodes' = get_sink_nodes(graph)
    /\ UNCHANGED starting_nodes

NextClient ==
    \/ CallSimplifyBubbles
    \/ CallSolveEntryTips
    \/ CallSolveOutTips
    \/ SimplifyBubblesRound
    \/ SolveEntryTipsRound
    \/ SolveOutTipsRound

SpecGraph == InitClient /\ [][NextClient]_vars

---------------------------------------------------------------------------
(* A client that calls select_best_path itself, on the graph of a bubble   *)
(* with a direct edge (A -> C -> G and A -> G), with any list of at most   *)
(* MaxPaths of its paths, any average weights and any flags.               *)

BubbleKmers == {<<"A", "C">>, <<"C", "G">>, <<"A", "G">>}

SelectDicts ==
    {kd \in KmerDicts :
        {kd[i].kmer : i \in 1..Len(kd)} = BubbleKmers /\ \A i \in 1..Len(kd) : kd[i].count = 1}

\* the averages handed in: 1, 2 and 2/2
AvgValues == {<<1, 1>>, <<2, 1>>, <<2, 2>>}

\* every simple path of g with two nodes or more
SimplePaths(g) ==
    UNION {Range(all_simple_paths(g, a, b, FALSE)) : a \in NodeSet(g), b \in NodeSet(g)}

InitSelect ==
    /\ caller = "client"
    /\ kmer_size = 2
    /\ kmer_dict \in SelectDicts
    /\ reads = ReadsOf(kmer_dict)
    /\ graph = build_graph(kmer_dict)
    /\ starting_nodes = get_starting_nodes(graph)
    /\ ending_nodes = get_sink_nodes(graph)
    /\ contigs = << >>
    /\ pc = "idle"
    /\ depth = 0
    /\ scan = NoScan
    /\ sel = NoCall
    /\ last = ""
    /\ given = [pass |-> "", graph |-> graph]

CallSelectBestPath ==
    /\ pc = "idle"
    /\ \E path_list \in SeqsUpTo(SimplePaths(graph), MaxPaths) :
         \E weight_avg_list \in [1..Len(path_list) -> AvgValues] :
           \E delete_entry_node, delete_sink_node \in BOOLEAN :
             \E r \in select_best_path(graph, path_list, Lengths(path_list), weight_avg_list,
                                       delete_entry_node, delete_sink_node) :
               /\ sel' = TheCall(graph, path_list, Lengths(path_list), weight_avg_list,
                                 delete_entry_node, delete_sink_node, r)
               /\ graph' = r.graph
               /\ pc' = IF r.ok THEN "returned" ELSE "error"
    /\ UNCHANGED <<kmer_size, reads, kmer_dict, starting_nodes, ending_nodes, contigs,
                   depth, scan, caller, last, given>>

NextSelect == CallSelectBestPath

SpecSelect == InitSelect /\ [][NextSelect]_vars

---------------------------------------------------------------------------
(* Properties                                                              *)

\* the nodes of a losing path that remove_paths is asked to delete
Deleted(path, delete_entry_node, delete_sink_node) ==
    IF delete_entry_node /\ delete_sink_node THEN Range(path)
    ELSE IF delete_entry_node THEN Range(ButLast(path))
    ELSE IF delete_sink_node THEN Range(Tail(path))
    ELSE Range(SubSeq(path, 2, Len(path) - 1))

\* every node of path, and every edge between consecutive nodes, is in g
PathIn(g, path) ==
    /\ Range(path) \subseteq NodeSet(g)
    /\ \A i \in 1..(Len(path) - 1) : HasEdge(g, path[i], path[i + 1])

\* the mean of the weights of the edges between consecutive nodes of path
StepMean(g, path) ==
    <<Sum([i \in 1..(Len(path) - 1) |-> EdgeWeight(g, path[i], path[i + 1])]),
      Len(path) - 1>>

\* C1: a select_best_path call on two or more candidates hands every candidate
\* but one to remove_paths; the one kept has the greatest average weight when
\* the weights differ, else the greatest length when the lengths differ, and is
\* in any case a candidate of the list.
SelectPolicy ==
    (sel.called /\ Len(sel.path_list) >= 2) =>
        LET n == Len(sel.path_list)
            w == sel.weight_avg_list
            l == sel.path_length
        IN  /\ sel.best \in 1..n
            /\ AvgSpread(w) => \A j \in 1..n : ~AvgLess(w[sel.best], w[j])
            /\ (~AvgSpread(w) /\ LenSpread(l)) => \A j \in 1..n : l[j] <= l[sel.best]
            /\ Len(sel.removed) = n - 1
            /\ \A i \in 1..(n - 1) :
                 sel.removed[i] = sel.path_list[IF i < sel.best THEN i ELSE i + 1]
            /\ sel.ok => \A i \in 1..(n - 1) :
                 Deleted(sel.removed[i], sel.delete_entry_node, sel.delete_sink_node)
                     \cap NodeSet(graph) = {}

\* C1 witness: a call on three candidates of equal weight (1 and 2/2) and
\* different lengths returned, and kept the longest
SelectPolicyWitness ==
    /\ pc = "returned"
    /\ Len(sel.path_list) = 3
    /\ ~AvgSpread(sel.weight_avg_list)
    /\ \E i, j \in 1..3 : sel.weight_avg_list[i] # sel.weight_avg_list[j]
    /\ LenSpread(sel.path_length)
    /\ sel.path_length[sel.best] = 3
    /\ graph # sel.graph

\* C2: after a select_best_path call made by a pass returns, every node of the
\* kept path and every edge between its consecutive nodes is in the graph.
KeptPathIntact ==
    (sel.called /\ sel.ok /\ ~(sel.delete_entry_node /\ sel.delete_sink_node)) =>
        PathIn(graph, sel.path_list[sel.best])

\* C3: a round that applies a fix and recurses leaves the graph with fewer nodes.
RoundsShrink ==
    [][depth' = depth + 1 => Len(graph'.nodes) < Len(graph.nodes)]_vars

\* no node of g has two predecessors with a common ancestor
NoBubble(g) ==
    \A n \in NodeSet(g) :
        LET preds == predecessors(g, n)
        IN  \A i, j \in 1..Len(preds) :
                i < j => CommonAncestors(g, preds[i], preds[j]) = {}

\* C4: a graph simplify_bubbles returns has no node with two predecessors that
\* have a common ancestor, and simplify_bubbles run again on the graph it has
\* just returned returns at once, with the same nodes, edges and weights.
SimplifyBubblesIdempotent ==
    [][/\ (pc = "simplify_bubbles" /\ pc' = "idle") => NoBubble(graph')
       /\ (pc = "simplify_bubbles" /\ last = "simplify_bubbles" /\ depth = 0) =>
              (pc' = "idle" /\ graph' = graph)]_vars

\* C4 witness: a run removed a bubble and returned, and the run after it, handed
\* the graph as it is now, has returned too
SimplifyBubblesIdempotentWitness ==
    /\ pc = "idle"
    /\ last = "simplify_bubbles"
    /\ given = [pass |-> "simplify_bubbles", graph |-> graph]
    /\ sel.called /\ sel.ok
    /\ ~sel.delete_entry_node /\ ~sel.delete_sink_node
    /\ Len(graph.nodes) < Len(sel.graph.nodes)

\* the two paths of an entry-tip scenario at n, <<higher, lower>> by the mean of
\* their steps, or << >> when g is not such a scenario at n: g has exactly two
\* starting nodes, each with exactly one simple path to n, and the means differ
TipPaths(g, n) ==
    LET starts == get_starting_nodes(g)
    IN  IF Len(starts) # 2 \/ n \in Range(starts) THEN << >>
        ELSE LET p1 == all_simple_paths(g, starts[1], n, FALSE)
                 p2 == all_simple_paths(g, starts[2], n, FALSE)
             IN  IF Len(p1) # 1 \/ Len(p2) # 1 THEN << >>
                 ELSE IF AvgEq(StepMean(g, p1[1]), StepMean(g, p2[1])) THEN << >>
                 ELSE IF AvgLess(StepMean(g, p1[1]), StepMean(g, p2[1]))
                 THEN <<p2[1], p1[1]>>
                 ELSE <<p1[1], p2[1]>>

\* what the scenario promises of the graph solve_entry_tips returns
TipTrimmed(g, n, higher, lower) ==
    /\ Len(get_starting_nodes(g)) = 1
    /\ PathIn(g, higher)
    /\ (Range(lower) \ Range(higher)) \cap NodeSet(g) = {}
    /\ n \in NodeSet(g)

\* the scenario with nothing else around it: g is acyclic, n is its only node
\* with more than one predecessor, and the nodes of the lower path before n have
\* no successor off that path
PlainTip(g, n) ==
    /\ TipPaths(g, n) # << >>
    /\ is_directed_acyclic_graph(g)
    /\ \A m \in NodeSet(g) : Len(predecessors(g, m)) > 1 => m = n
    /\ LET lower == TipPaths(g, n)[2]
       IN  \A i \in 1..(Len(lower) - 1) : Len(successors(g, lower[i])) = 1

SimplePathSet(g, a, b) ==
    {p \in SeqsUpTo(NodeSet(g), Cardinality(NodeSet(g))) :
        /\ Len(p) >= 1 /\ p[1] = a /\ p[Len(p)] = b
        /\ IsInjective(p)
        /\ \A i \in 1..(Len(p) - 1) : HasEdge(g, p[i], p[i + 1])}

\* the paths of g from a node of starts to a node of ends, of two nodes or more
BoundaryPaths(g, starts, ends) ==
    {p \in UNION {SimplePathSet(g, a, b) : a \in Range(starts), b \in Range(ends)} :
        Len(p) >= 2}

\* the one-node paths: a node that is both a starting node and a sink.  Whether
\* all_simple_paths yields them depends on the networkx in use.
LonePaths(starts, ends) == {<<a>> : a \in Range(starts) \cap Range(ends)}

\* cs holds one entry for each path of P and nothing else, each entry the
\* path's first node followed by the last letter of every later node, with its
\* length, the number of nodes of the path + k - 2
OneEntryPerPath(cs, P, k) ==
    /\ Len(cs) = Cardinality(P)
    /\ \A p \in P : \E i \in 1..Len(cs) :
           /\ cs[i][1] = p[1] \o [j \in 1..(Len(p) - 1) |-> Last(p[j + 1])]
           /\ cs[i][2] = Len(cs[i][1])
           /\ cs[i][2] = Len(p) + k - 2

\* C6: get_contigs returns one [sequence, length] entry for each simple path
\* from a starting node to a sink, and nothing else, and leaves the graph as it
\* was; the round-trip reads with k = 3 give the one contig ACGTA of length 5,
\* and the two disjoint paths give two contigs.
ContigsPerPath ==
    [][pc = "get_contigs" =>
        /\ graph' = graph
        /\ \/ OneEntryPerPath(contigs', BoundaryPaths(graph, starting_nodes, ending_nodes),
                              kmer_size)
           \/ OneEntryPerPath(contigs', BoundaryPaths(graph, starting_nodes, ending_nodes)
                                            \cup LonePaths(starting_nodes, ending_nodes),
                              kmer_size)
        /\ (reads = RoundTripReads /\ kmer_size = 3) =>
               contigs' = <<<<<<"A", "C", "G", "T", "A">>, 5>>>>
        /\ (reads = DisjointReads /\ kmer_size = 2) =>
               {contigs'[i] : i \in 1..Len(contigs')}
                   = {<<<<"A", "C">>, 2>>, <<<<"G", "T">>, 2>>}]_vars

\* C6 witness: main() has assembled the round-trip reads
ContigsPerPathWitness ==
    /\ pc = "done"
    /\ reads = RoundTripReads
    /\ kmer_size = 3
    /\ Len(contigs) = 1

\* the number of places, in all the reads, where kmer stands
Occurrences(rs, kmer) ==
    Sum([r \in 1..Len(rs) |->
        Cardinality({i \in 1..Len(rs[r]) :
            i + Len(kmer) - 1 <= Len(rs[r]) /\ SubSeq(rs[r], i, i + Len(kmer) - 1) = kmer})])

\* the distinct k-mers of the reads
DistinctKmers(rs, k) == UNION {Range(cut_kmer(rs[r], k)) : r \in 1..Len(rs)}

\* the k-mer of an edge: A + the last character of B
EdgeKmer(e) == e.u \o (IF e.v = << >> THEN << >> ELSE <<Last(e.v)>>)

\* the invariant of the graph, once built
EdgesAreKmers ==
    /\ \A e \in Range(graph.edges) :
           /\ Len(e.u) = kmer_size - 1
           /\ Len(e.v) = kmer_size - 1
           /\ SubSeq(e.u, 2, Len(e.u)) = ButLast(e.v)
           /\ e.weight >= 1
           /\ e.weight = Occurrences(reads, EdgeKmer(e))
    /\ (pc = "simplify_bubbles" /\ depth = 0) =>
           /\ Len(graph.edges) = Cardinality(DistinctKmers(reads, kmer_size))
           /\ \A n \in NodeSet(graph) : \E e \in Range(graph.edges) : e.u = n \/ e.v = n

\* C7, as stated: for every positive k, every edge of the graph build_graph
\* returns, and of the graph after every round of the passes, joins two
\* (k-1)-mers that overlap, with the number of occurrences of its k-mer in
\* the reads as weight, at least 1; build_graph makes one edge per distinct
\* k-mer and no isolated node.
GraphInvariant ==
    pc \notin {"build_kmer_dict", "build_graph"} => EdgesAreKmers

\* C7, amended: the same for every k of 2 or more.
GraphInvariantFromTwo ==
    (kmer_size >= 2 /\ pc \notin {"build_kmer_dict", "build_graph"}) => EdgesAreKmers

\* C7 witness: a round of a pass of main() has removed nodes from a graph of
\* 2-mers or longer, and edges are left
GraphInvariantFromTwoWitness ==
    /\ caller = "main"
    /\ kmer_size >= 2
    /\ sel.called /\ sel.ok
    /\ graph.edges # << >>
    /\ Len(graph.nodes) < Len(build_graph(kmer_dict).nodes)

\* C8: each average weight a pass computes is the mean of the weights of the
\* edges between consecutive nodes of its path.
AverageOverSteps ==
    sel.called =>
        \A i \in 1..Len(sel.path_list) :
            AvgEq(sel.weight_avg_list[i], StepMean(sel.graph, sel.path_list[i]))

\* C9: a select_best_path call with exactly one candidate returns normally, keeps
\* that candidate and leaves the graph as it was.
SingleCandidateAccepted ==
    (sel.called /\ Len(sel.path_list) = 1) =>
        (sel.ok /\ pc = "returned" /\ sel.best = 1 /\ graph = sel.graph)

\* the first pair (i, j), i < j, of predecessors with a common ancestor
FirstPair(g, preds) ==
    LET has(q) == q[1] < q[2] /\ CommonAncestors(g, preds[q[1]], preds[q[2]]) # {}
        pairs == {q \in (1..Len(preds)) \X (1..Len(preds)) : has(q)}
    IN  CHOOSE q \in pairs :
            \A r \in pairs : q[1] < r[1] \/ (q[1] = r[1] /\ q[2] <= r[2])

\* C10: the ancestor simplify_bubbles hands to solve_bubble is a lowest common
\* ancestor of the first pair of the node's predecessors that has one, so a node
\* of the graph.
FirstQualifyingPair ==
    scan.node # None =>
        LET preds == predecessors(scan.graph, scan.node)
            q == FirstPair(scan.graph, preds)
        IN  /\ scan.ancestor \in NodeSet(scan.graph)
            /\ scan.ancestor \in LowestCommonAncestors(scan.graph, preds[q[1]], preds[q[2]])

=============================================================================
